---- MODULE Spec2Model ----
(***************************************************************************)
(* Model of cc-launcher's session identity and platform resolution code:   *)
(*   cc_launcher/core/session_mapper.py  (SessionMapper)                   *)
(*   cc_launcher/core/session.py         (SessionManager)                  *)
(*   cc_launcher/detector/platform.py    (PlatformDetector)                *)
(*                                                                         *)
(* A session id is a sequence of tokens <<c1, c2, r, "-", r>>: c1 and c2   *)
(* are the first two hex characters of the UUID string, r stands for the   *)
(* remaining characters of the first group and for the groups after the    *)
(* first dash.  uuid.uuid4() is modelled as a free choice of the first two *)
(* characters and a fresh value for the rest.  Every datetime.now() read   *)
(* inside one call returns the same clock value.                           *)
(***************************************************************************)
EXTENDS Integers, Sequences, FiniteSets, TLC

VARIABLES
  platform_prefixes, \* SessionMapper.platform_prefixes
  mappings,          \* SessionMapper.mappings (in memory)
  disk,              \* session-mappings.json of the mapper
  now,               \* the clock read by datetime.now()
  nextId,            \* number of uuid4() values drawn so far, plus one
  lastSession,       \* last_session_<platform>.json files
  sessions,          \* "sessions" of the legacy session-mappings.json
  cfg,               \* platforms.json
  result,            \* value returned by the last detect_platform call
  gen,               \* history: what generate_dual_uuids returned
  removed,           \* history: canonical ids a cleanup deleted something of
  maxCutoff,         \* history: largest cutoff of a cleanup so far
  lastNew,           \* history: last id create_or_get_session(P, False) returned
  writeFailed,       \* history: some write of the mapping document failed
  peer,              \* a second launcher process: its SessionMapper.mappings
  lastOp             \* history: the last call and what it returned

vars == <<platform_prefixes, mappings, disk, now, nextId, lastSession, sessions,
          cfg, result, gen, removed, maxCutoff, lastNew, writeFailed, peer, lastOp>>

mapperVars == <<platform_prefixes, mappings, disk, now, nextId, lastSession,
                sessions, gen, removed, maxCutoff, lastNew, writeFailed>>

resolverVars == <<cfg, result>>

(* ------------------------------ bounds --------------------------------- *)
MaxSessions == 2
MaxTime == 2
MaxDays == 1

(* --------------------------- value samples ----------------------------- *)
Absent == -1
None == "None"

RandHeads == {<<"0", "1">>, <<"a", "7">>}

NoId == <<>>

PlatformArgs == {"alpha", "beta", "zeta"}

(* alphabetical (code point) order of the names used as platform ids *)
NameOrder == <<"Alpha", "alpha", "beta", "gamma", "zeta">>

Rank(s) == CHOOSE i \in 1..Len(NameOrder) : NameOrder[i] = s

(* str.lower() on the platform names and tokens used here *)
Lower(s) ==
  CASE s = "Alpha" -> "alpha"
    [] s = "Beta" -> "beta"
    [] s = "B" -> "b"
    [] s = "Zeta" -> "zeta"
    [] OTHER -> s

(* sorted(platforms.keys()) *)
sorted(S) ==
  CHOOSE q \in [1..Cardinality(S) -> S] :
    /\ \A i, j \in 1..Cardinality(S) : i < j => Rank(q[i]) < Rank(q[j])

(* f"{index:02d}" as the two characters of the prefix *)
Format02d(i) ==
  <<ToString(i \div 10), ToString(i % 10)>>

generate_platform_prefixes(ids) ==
  LET sorted_platforms == sorted(ids)
  IN [p \in ids |->
        Format02d(CHOOSE i \in 1..Len(sorted_platforms) : sorted_platforms[i] = p)]

(* str(uuid.uuid4()) *)
uuid4(head, n) == head \o <<ToString(n), "-", ToString(n)>>

EmptyMap == [x \in {} |-> x]

(* the mapping document; valid is FALSE for a JSON document that lacks the  *)
(* "mappings", "reverse_mappings" and "platform_sessions" keys, on which    *)
(* every self.mappings["..."] raises                                        *)
EmptyStore ==
  [valid |-> TRUE, mappings |-> EmptyMap, reverse_mappings |-> EmptyMap,
   platform_sessions |-> EmptyMap, last_updated |-> Absent]

MalformedStore == [EmptyStore EXCEPT !.valid = FALSE]

NoFile == [exists |-> FALSE, doc |-> EmptyStore]

load_mappings(d) == IF d.exists THEN d.doc ELSE EmptyStore

Put(f, k, v) == [x \in (DOMAIN f) \cup {k} |-> IF x = k THEN v ELSE f[x]]

Drop(f, ks) == [x \in (DOMAIN f) \ ks |-> f[x]]

(* d.get("last_active", d.get("created_at", "")) *)
Effective(r) == IF r.last_active # Absent THEN r.last_active ELSE r.created_at

(* _save_mappings: stamps last_updated, then writes the whole document *)
Stamp(store, t) == [store EXCEPT !.last_updated = t]

(* mutation: the document is written even when the write is said to fail *)
save_mappings_anyway(store, t, ok, d) ==
  [exists |-> TRUE, doc |-> Stamp(store, t)]

save_mappings(store, t, ok, d) ==
  IF ok THEN [exists |-> TRUE, doc |-> Stamp(store, t)] ELSE d

(* the in-memory part of generate_dual_uuids, lines 112-146 *)
PrefixOf(platform) ==
  IF Lower(platform) \in DOMAIN platform_prefixes
    THEN platform_prefixes[Lower(platform)] ELSE <<"x", "x">>

(* mutation: the slice starts one character late *)
PrefixUuid_late(prefix, standard_uuid) ==
  prefix \o SubSeq(standard_uuid, 4, Len(standard_uuid))

PrefixUuid(prefix, standard_uuid) ==
  prefix \o SubSeq(standard_uuid, 3, Len(standard_uuid))

(* mutation: the platform's list is restarted with the new record *)
AddSession_restart(store, platform, standard_uuid, t) ==
  LET prefix == PrefixOf(platform)
      prefix_uuid == PrefixUuid(prefix, standard_uuid)
      fwd == [standard_uuid |-> standard_uuid, platform |-> platform,
              created_at |-> t, prefix |-> prefix, last_active |-> Absent]
      rev == [prefix_uuid |-> prefix_uuid, platform |-> platform,
              created_at |-> t, prefix |-> prefix, last_active |-> Absent]
      info == [standard_uuid |-> standard_uuid, prefix_uuid |-> prefix_uuid,
               created_at |-> t, last_active |-> t, platform |-> None]
      old == IF platform \in DOMAIN store.platform_sessions
               THEN store.platform_sessions[platform] ELSE <<>>
  IN [store EXCEPT
        !.mappings = Put(@, prefix_uuid, fwd),
        !.reverse_mappings = Put(@, standard_uuid, rev),
        !.platform_sessions = Put(@, platform, <<info>>)]

AddSession(store, platform, standard_uuid, t) ==
  LET prefix == PrefixOf(platform)
      prefix_uuid == PrefixUuid(prefix, standard_uuid)
      fwd == [standard_uuid |-> standard_uuid, platform |-> platform,
              created_at |-> t, prefix |-> prefix, last_active |-> Absent]
      rev == [prefix_uuid |-> prefix_uuid, platform |-> platform,
              created_at |-> t, prefix |-> prefix, last_active |-> Absent]
      info == [standard_uuid |-> standard_uuid, prefix_uuid |-> prefix_uuid,
               created_at |-> t, last_active |-> t, platform |-> None]
      old == IF platform \in DOMAIN store.platform_sessions
               THEN store.platform_sessions[platform] ELSE <<>>
  IN [store EXCEPT
        !.mappings = Put(@, prefix_uuid, fwd),
        !.reverse_mappings = Put(@, standard_uuid, rev),
        !.platform_sessions = Put(@, platform, Append(old, info))]

(* session_id.split("-")[0] if "-" in session_id else session_id[:2] *)
HasDash(s) == \E i \in 1..Len(s) : s[i] = "-"

FirstDash(s) == CHOOSE i \in 1..Len(s) : s[i] = "-" /\ \A j \in 1..(i - 1) : s[j] # "-"

SplitHead(s) ==
  IF HasDash(s) THEN SubSeq(s, 1, FirstDash(s) - 1)
  ELSE SubSeq(s, 1, IF Len(s) < 2 THEN Len(s) ELSE 2)

get_platform_from_session(store, session_id) ==
  IF ~store.valid THEN None
  ELSE IF session_id \in DOMAIN store.mappings
    THEN store.mappings[session_id].platform
  ELSE IF session_id \in DOMAIN store.reverse_mappings
    THEN store.reverse_mappings[session_id].platform
  ELSE IF \E p \in DOMAIN platform_prefixes : platform_prefixes[p] = SplitHead(session_id)
    THEN CHOOSE p \in DOMAIN platform_prefixes : platform_prefixes[p] = SplitHead(session_id)
  ELSE None

(* mutation: a tagged id is returned untranslated *)
get_standard_uuid_same(store, session_id) ==
  IF ~store.valid THEN NoId
  ELSE IF session_id \in DOMAIN store.mappings \cup DOMAIN store.reverse_mappings
    THEN session_id
  ELSE NoId

get_standard_uuid(store, session_id) ==
  IF ~store.valid THEN NoId
  ELSE IF session_id \in DOMAIN store.mappings
    THEN store.mappings[session_id].standard_uuid
  ELSE IF session_id \in DOMAIN store.reverse_mappings
    THEN session_id
  ELSE NoId

get_prefix_uuid(store, standard_uuid) ==
  IF ~store.valid THEN NoId
  ELSE IF standard_uuid \in DOMAIN store.reverse_mappings
    THEN store.reverse_mappings[standard_uuid].prefix_uuid
  ELSE NoId


(* update_session_activity, lines 252-258: the two early returns *)
TouchResolves(store, session_id) ==
  /\ get_platform_from_session(store, session_id) # None
  /\ get_standard_uuid(store, session_id) # NoId

(* the first entry of the list whose standard_uuid matches, lines 269-272 *)
TouchList(list, standard_uuid, t) ==
  IF \E i \in 1..Len(list) : list[i].standard_uuid = standard_uuid
    THEN LET k == CHOOSE i \in 1..Len(list) :
                    /\ list[i].standard_uuid = standard_uuid
                    /\ \A j \in 1..(i - 1) : list[j].standard_uuid # standard_uuid
         IN [list EXCEPT ![k].last_active = t]
    ELSE list

(* update_session_activity, lines 260-272: the in-memory updates *)
TouchStore(store, session_id, t) ==
  LET platform == get_platform_from_session(store, session_id)
      standard_uuid == get_standard_uuid(store, session_id)
  IN [store EXCEPT
        !.mappings =
           IF session_id \in DOMAIN @
             THEN [@ EXCEPT ![session_id].last_active = t] ELSE @,
        !.reverse_mappings =
           IF standard_uuid \in DOMAIN @
             THEN [@ EXCEPT ![standard_uuid].last_active = t] ELSE @,
        !.platform_sessions =
           IF platform \in DOMAIN @
             THEN [@ EXCEPT ![platform] = TouchList(@, standard_uuid, t)] ELSE @]

(* cleanup_old_sessions, lines 347-381 *)
Kept(list, cutoff) == SelectSeq(list, LAMBDA r : Effective(r) >= cutoff)

CountRecords(ps) ==
  Cardinality(UNION {{<<p, i>> : i \in 1..Len(ps[p])} : p \in DOMAIN ps})

CleanLists(ps, cutoff) ==
  LET filtered == [p \in DOMAIN ps |-> Kept(ps[p], cutoff)]
  IN Drop(filtered, {p \in DOMAIN ps : filtered[p] = <<>>})

mappings_to_remove(store, cutoff) ==
  {k \in DOMAIN store.mappings : Effective(store.mappings[k]) < cutoff}

(* mutation: the reverse map is left alone *)
CleanStore_keep_reverse(store, cutoff) ==
  LET gone == mappings_to_remove(store, cutoff)
  IN [store EXCEPT
        !.platform_sessions = CleanLists(@, cutoff),
        !.mappings = Drop(@, gone)]

CleanStore(store, cutoff) ==
  LET gone == mappings_to_remove(store, cutoff)
  IN [store EXCEPT
        !.platform_sessions = CleanLists(@, cutoff),
        !.reverse_mappings = Drop(@, {store.mappings[k].standard_uuid : k \in gone}),
        !.mappings = Drop(@, gone)]

cleaned_count(store, cutoff) ==
  CountRecords(store.platform_sessions)
    - CountRecords(CleanLists(store.platform_sessions, cutoff))

(* get_recent_sessions, lines 320-323: session_info["platform"] = platform *)
TagPlatforms(store) ==
  [store EXCEPT !.platform_sessions =
     [p \in DOMAIN @ |-> [i \in 1..Len(@[p]) |-> [@[p][i] EXCEPT !.platform = p]]]]

(* ------------------------- the canonical ids of a store ---------------- *)
ListIds(store) ==
  UNION {{store.platform_sessions[p][i].standard_uuid :
            i \in 1..Len(store.platform_sessions[p])} :
         p \in DOMAIN store.platform_sessions}

FwdIds(store) == {store.mappings[k].standard_uuid : k \in DOMAIN store.mappings}

RevIds(store) == DOMAIN store.reverse_mappings

AnyIds(store) == ListIds(store) \cup FwdIds(store) \cup RevIds(store)


(* ---------------------- PlatformDetector (platform.py) ----------------- *)
Profile(enabled, api_key, auth_token, login_token, model) ==
  [enabled |-> enabled, api_key |-> api_key, auth_token |-> auth_token,
   login_token |-> login_token, name |-> "N", api_base_url |-> "U",
   model |-> model]

NoProfile == Profile(FALSE, "", "", "", "")

ProfileSamples ==
  {Profile(TRUE, "K", "", "", "M"),    \* available, api_key
   Profile(TRUE, "", "", "L", "M"),    \* available, login_token only
   Profile(FALSE, "K", "", "", "M"),   \* disabled
   Profile(TRUE, "", "", "", "M"),     \* no credential
   Profile(TRUE, "K", "", "", "")}     \* no model

RegistryIds == {"alpha", "beta"}

AliasSamples ==
  {EmptyMap, [a \in {"b"} |-> "beta"], [a \in {"B"} |-> "beta"],
   [a \in {"b"} |-> "gamma"]}

DefaultSamples == {"", "alpha", "beta", "gamma"}

Tokens == {"", "alpha", "beta", "Beta", "b", "B", "gamma"}

(* the "platforms" dict, in insertion order *)
Registries ==
  {<<>>} \cup
  {<<[id |-> i, profile |-> pr]>> : i \in RegistryIds, pr \in ProfileSamples} \cup
  {r \in {<<[id |-> i, profile |-> pi], [id |-> j, profile |-> pj]>> :
              i \in RegistryIds, j \in RegistryIds,
              pi \in ProfileSamples, pj \in ProfileSamples} :
     r[1].id # r[2].id}

Configs ==
  [platforms : Registries, default_platform : DefaultSamples, aliases : AliasSamples]

Keys(platforms) == {platforms[i].id : i \in 1..Len(platforms)}

(* platforms.get(id) *)
Get(platforms, id) ==
  (CHOOSE i \in 1..Len(platforms) : platforms[i].id = id)

ProfileAt(platforms, id) == platforms[Get(platforms, id)].profile

NoResult == [found |-> FALSE, id |-> None, profile |-> NoProfile]

Found(id, profile) == [found |-> TRUE, id |-> id, profile |-> profile]

resolve_platform_alias(platform, platforms_config) ==
  IF platform = "" THEN None
  ELSE LET key == Lower(platform)
           resolved == IF key \in DOMAIN platforms_config.aliases
                         THEN platforms_config.aliases[key] ELSE key
       IN IF resolved \in Keys(platforms_config.platforms) THEN resolved ELSE None

(* mutation: the name is not among the required fields *)
is_platform_available_noname(platform_config) ==
  /\ platform_config.enabled
  /\ \/ platform_config.api_key # ""
     \/ platform_config.auth_token # ""
     \/ platform_config.login_token # ""
  /\ platform_config.api_base_url # ""
  /\ platform_config.model # ""

is_platform_available(platform_config) ==
  /\ platform_config.enabled
  /\ \/ platform_config.api_key # ""
     \/ platform_config.auth_token # ""
     \/ platform_config.login_token # ""
  /\ platform_config.name # ""
  /\ platform_config.api_base_url # ""
  /\ platform_config.model # ""

(* mutation: the last available entry is taken instead of the first *)
first_available_last(platforms_config) ==
  LET ps == platforms_config.platforms
      avail == {i \in 1..Len(ps) : is_platform_available(ps[i].profile)}
  IN IF avail # {}
       THEN LET k == CHOOSE i \in avail : \A j \in avail : i >= j
            IN Found(ps[k].id, ps[k].profile)
     ELSE NoResult

(* lines 106-114: the first available entry in the stored order *)
first_available(platforms_config) ==
  LET ps == platforms_config.platforms
      avail == {i \in 1..Len(ps) : is_platform_available(ps[i].profile)}
  IN IF avail # {}
       THEN LET k == CHOOSE i \in avail : \A j \in avail : i <= j
            IN Found(ps[k].id, ps[k].profile)
     ELSE NoResult

(* mutation: the configured default is not looked at *)
select_default_platform_nodefault(platforms_config) ==
  first_available(platforms_config)

select_default_platform(platforms_config) ==
  LET ps == platforms_config.platforms
      default_platform == platforms_config.default_platform
  IN IF /\ default_platform # ""
        /\ default_platform \in Keys(ps)
        /\ is_platform_available(ProfileAt(ps, default_platform))
       THEN Found(default_platform, ProfileAt(ps, default_platform))
     ELSE first_available(platforms_config)

(* mutation: an unavailable explicit request falls back to the default *)
detect_platform_fallback(requested_platform, platforms_config) ==
  LET resolved_platform == resolve_platform_alias(requested_platform, platforms_config)
  IN IF /\ resolved_platform # None
        /\ is_platform_available(ProfileAt(platforms_config.platforms, resolved_platform))
       THEN Found(resolved_platform,
                  ProfileAt(platforms_config.platforms, resolved_platform))
       ELSE select_default_platform(platforms_config)

detect_platform(requested_platform, platforms_config) ==
  LET resolved_platform == resolve_platform_alias(requested_platform, platforms_config)
  IN IF resolved_platform # None
       THEN IF is_platform_available(ProfileAt(platforms_config.platforms, resolved_platform))
              THEN Found(resolved_platform,
                         ProfileAt(platforms_config.platforms, resolved_platform))
              ELSE NoResult
       ELSE select_default_platform(platforms_config)

(* mutation: only an api_key counts as a credential when listing *)
list_available_platforms_keyed(platforms_config) ==
  {platforms_config.platforms[i].id :
     i \in {j \in 1..Len(platforms_config.platforms) :
              /\ is_platform_available(platforms_config.platforms[j].profile)
              /\ platforms_config.platforms[j].profile.api_key # ""}}

list_available_platforms(platforms_config) ==
  {platforms_config.platforms[i].id :
     i \in {j \in 1..Len(platforms_config.platforms) :
              is_platform_available(platforms_config.platforms[j].profile)}}


(* ------------------- SessionManager (session.py) ----------------------- *)
NoPointer == [exists |-> FALSE, session_id |-> NoId, standard_uuid |-> NoId,
              prefix_uuid |-> NoId]

(* utils/file_lock.py is not part of the sources: safe_json_read returns    *)
(* what safe_json_write stored, or nothing when the file was never written *)
safe_json_read(files, name) == files[name]

safe_json_write(files, name, data) == [files EXCEPT ![name] = data]

(* get_session_info: the "sessions" map of the legacy mapping file *)
get_session_info(session_id) ==
  IF session_id \in DOMAIN sessions THEN sessions[session_id] ELSE NoPointer

get_last_session(platform_name) ==
  LET session_data == safe_json_read(lastSession, platform_name)
  IN IF session_data.exists /\ session_data.session_id # NoId
       THEN get_session_info(session_data.session_id)
       ELSE NoPointer

(* ------------------------------- states -------------------------------- *)
DefaultCfg ==
  [platforms |-> <<[id |-> "alpha", profile |-> Profile(TRUE, "K", "", "", "M")],
                   [id |-> "beta", profile |-> Profile(TRUE, "", "", "L", "M")]>>,
   default_platform |-> "alpha",
   aliases |-> [a \in {"b"} |-> "beta"]]

NoOp == [op |-> "none"]

(* the second process before it is started *)
NoPeer == [started |-> FALSE, mappings |-> EmptyStore, loaded |-> {}, made |-> {}]

InitMapper ==
  /\ platform_prefixes = generate_platform_prefixes(Keys(cfg.platforms))
  /\ mappings = load_mappings(disk)
  /\ now = 0
  /\ nextId = 1
  /\ lastSession = [p \in PlatformArgs |-> NoPointer]
  /\ sessions = EmptyMap
  /\ gen = EmptyMap
  /\ removed = {}
  /\ maxCutoff = Absent
  /\ lastNew = [p \in PlatformArgs |-> NoId]
  /\ writeFailed = FALSE
  /\ peer = NoPeer
  /\ lastOp = NoOp

Init ==
  /\ cfg = DefaultCfg
  /\ result = NoResult
  /\ disk = NoFile
  /\ InitMapper

(* the mapping file may already hold a document without the three maps *)
InitIO ==
  /\ cfg = DefaultCfg
  /\ result = NoResult
  /\ disk \in {NoFile, [exists |-> TRUE, doc |-> MalformedStore]}
  /\ InitMapper

(* ------------------- generate_dual_uuids, as a step -------------------- *)
(* self.mappings["mappings"] raises on a malformed document (line 121):    *)
(* the except branch returns a second uuid4() for all three ids            *)
GenFails(platform) == ~mappings.valid

GenStandard(head) == uuid4(head, nextId)

(* mutation: the except branch still returns a prefixed id *)
GenPrefix_always(platform, head) ==
  PrefixUuid(PrefixOf(platform), GenStandard(head))

GenPrefix(platform, head) ==
  IF GenFails(platform) THEN GenStandard(head)
  ELSE PrefixUuid(PrefixOf(platform), GenStandard(head))

GenerateEffects(platform, head, ok) ==
  /\ nextId <= MaxSessions
  /\ nextId' = nextId + 1
  /\ gen' = Put(gen, GenStandard(head),
                [tagged |-> GenPrefix(platform, head), platform |-> platform,
                 fallback |-> GenFails(platform), active |-> now])
  /\ IF GenFails(platform)
       THEN UNCHANGED <<peer, mappings, disk, writeFailed>>
       ELSE /\ mappings' = Stamp(AddSession(mappings, platform, GenStandard(head), now), now)
            /\ disk' = save_mappings(AddSession(mappings, platform, GenStandard(head), now),
                                     now, ok, disk)
            /\ writeFailed' = (writeFailed \/ ~ok)

Generate(platform, head, ok) ==
  /\ GenerateEffects(platform, head, ok)
  /\ lastOp' = [op |-> "generate_dual_uuids", platform |-> platform,
                standard_uuid |-> GenStandard(head),
                prefix_uuid |-> GenPrefix(platform, head),
                gen_failed |-> GenFails(platform),
                write_failed |-> (~GenFails(platform) /\ ~ok)]
  /\ UNCHANGED <<peer, platform_prefixes, now, lastSession, sessions, cfg, result,
                 removed, maxCutoff, lastNew>>

(* ------------------- update_session_activity, as a step ---------------- *)
KnownIds ==
  DOMAIN gen \cup {gen[c].tagged : c \in DOMAIN gen} \cup {<<"0", "1">>}

Touch(session_id, ok) ==
  /\ IF TouchResolves(mappings, session_id)
       THEN /\ mappings' = Stamp(TouchStore(mappings, session_id, now), now)
            /\ disk' = save_mappings(TouchStore(mappings, session_id, now), now, ok, disk)
            /\ writeFailed' = (writeFailed \/ ~ok)
            /\ gen' = [gen EXCEPT ![get_standard_uuid(mappings, session_id)].active = now]
       ELSE UNCHANGED <<peer, mappings, disk, writeFailed, gen>>
  /\ lastOp' = [op |-> "update_session_activity", session_id |-> session_id,
                standard_uuid |-> get_standard_uuid(mappings, session_id),
                ret |-> (TouchResolves(mappings, session_id) /\ ok)]
  /\ UNCHANGED <<peer, platform_prefixes, now, nextId, lastSession, sessions, cfg, result,
                 removed, maxCutoff, lastNew>>

(* ------------------- cleanup_old_sessions, as a step ------------------- *)
Max(a, b) == IF a >= b THEN a ELSE b

(* date.toordinal() of the day the clock starts at; datetime.min is day 1 *)
TodayOrdinal == 739923

(* datetime.now() - timedelta(days=days) raises OverflowError when the      *)
(* result would lie before datetime.min; the except branch returns 0       *)
Overflows(days) == TodayOrdinal + now - days < 1

Cleanup(days, ok) ==
  LET cutoff == now - days
      raises == ~mappings.valid \/ Overflows(days)
      count == IF raises THEN 0 ELSE cleaned_count(mappings, cutoff)
      after == IF raises THEN mappings ELSE CleanStore(mappings, cutoff)
  IN /\ mappings' = IF count > 0 THEN Stamp(after, now) ELSE after
     /\ disk' = IF count > 0 THEN save_mappings(after, now, ok, disk) ELSE disk
     /\ writeFailed' = (writeFailed \/ (count > 0 /\ ~ok))
     /\ removed' = removed \cup (ListIds(mappings) \ ListIds(after))
                           \cup (FwdIds(mappings) \ FwdIds(after))
                           \cup (RevIds(mappings) \ RevIds(after))
     /\ maxCutoff' = Max(maxCutoff, cutoff)
     /\ lastOp' = [op |-> "cleanup_old_sessions", days |-> days, cutoff |-> cutoff,
                   ret |-> count]
     /\ UNCHANGED <<peer, platform_prefixes, now, nextId, lastSession, sessions, cfg,
                    result, gen, lastNew>>

(* ------------------- get_platform_sessions, as a step ------------------ *)
Remove(list, k) == SubSeq(list, 1, k - 1) \o SubSeq(list, k + 1, Len(list))

(* sorted(list, key=effective timestamp, reverse=True): a stable sort, so   *)
(* records with equal keys keep their stored order                         *)
RECURSIVE sorted_recent(_)
sorted_recent(list) ==
  IF list = <<>> THEN <<>>
  ELSE LET k == CHOOSE i \in 1..Len(list) :
                  /\ \A j \in 1..Len(list) : Effective(list[i]) >= Effective(list[j])
                  /\ \A j \in 1..(i - 1) : Effective(list[j]) < Effective(list[i])
       IN <<list[k]>> \o sorted_recent(Remove(list, k))

(* mutation: the stored order is returned *)
get_platform_sessions_unsorted(store, platform, limit) ==
  IF ~store.valid \/ platform \notin DOMAIN store.platform_sessions THEN <<>>
  ELSE LET sessions_ == store.platform_sessions[platform]
       IN SubSeq(sessions_, 1, IF limit < Len(sessions_) THEN limit ELSE Len(sessions_))

(* lines 291-302; sessions[:limit] for a limit that is not negative *)
get_platform_sessions(store, platform, limit) ==
  IF ~store.valid \/ platform \notin DOMAIN store.platform_sessions THEN <<>>
  ELSE LET sessions_ == sorted_recent(store.platform_sessions[platform])
       IN SubSeq(sessions_, 1, IF limit < Len(sessions_) THEN limit ELSE Len(sessions_))

GetPlatformSessions(platform, limit) ==
  /\ lastOp' = [op |-> "get_platform_sessions", platform |-> platform,
                limit |-> limit, ret |-> get_platform_sessions(mappings, platform, limit)]
  /\ UNCHANGED <<peer, platform_prefixes, mappings, disk, now, nextId, lastSession,
                 sessions, cfg, result, gen, removed, maxCutoff, lastNew, writeFailed>>

(* ------------------- get_recent_sessions, as a step -------------------- *)
GetRecentSessions ==
  /\ mappings' = IF mappings.valid THEN TagPlatforms(mappings) ELSE mappings
  /\ lastOp' = [op |-> "get_recent_sessions"]
  /\ UNCHANGED <<peer, platform_prefixes, disk, now, nextId, lastSession, sessions, cfg,
                 result, gen, removed, maxCutoff, lastNew, writeFailed>>

(* ------------------- create_or_get_session, as a step ------------------ *)
(* what generate_dual_uuids returns to _create_new_session *)
uuid_mapping(platform_name, head) ==
  [session_id |-> GenPrefix(platform_name, head),
   standard_uuid |-> GenStandard(head),
   prefix_uuid |-> GenPrefix(platform_name, head)]

(* mutation: the canonical id is recorded as the session id *)
session_info_standard(mapping) ==
  [exists |-> TRUE, session_id |-> mapping.standard_uuid,
   standard_uuid |-> mapping.standard_uuid, prefix_uuid |-> mapping.prefix_uuid]

(* _create_new_session, lines 84-92 *)
session_info(mapping) ==
  [exists |-> TRUE, session_id |-> mapping.session_id,
   standard_uuid |-> mapping.standard_uuid, prefix_uuid |-> mapping.prefix_uuid]

(* create_or_get_session without the record of the call: what it returns   *)
(* and what it changes                                                     *)
Continues(platform_name, continue_session) ==
  continue_session /\ get_last_session(platform_name).exists

ReturnedSession(platform_name, continue_session, head) ==
  IF Continues(platform_name, continue_session)
    THEN get_last_session(platform_name).session_id
    ELSE session_info(uuid_mapping(platform_name, head)).session_id

CreateOrGetEffects(platform_name, continue_session, head, ok) ==
  IF Continues(platform_name, continue_session)
    THEN UNCHANGED <<peer, platform_prefixes, mappings, disk, now, nextId, lastSession,
                     sessions, cfg, result, gen, removed, maxCutoff, lastNew,
                     writeFailed>>
    ELSE /\ GenerateEffects(platform_name, head, ok)
         /\ lastSession' = safe_json_write(lastSession, platform_name,
              session_info(uuid_mapping(platform_name, head)))
         /\ lastNew' = IF continue_session THEN lastNew
                       ELSE [lastNew EXCEPT ![platform_name] =
                               session_info(uuid_mapping(platform_name, head)).session_id]
         /\ UNCHANGED <<peer, platform_prefixes, now, sessions, cfg, result, removed,
                        maxCutoff>>

CreateOrGet(platform_name, continue_session, head, ok) ==
  /\ CreateOrGetEffects(platform_name, continue_session, head, ok)
  /\ lastOp' = [op |-> "create_or_get_session", platform |-> platform_name,
                continue_session |-> continue_session,
                created |-> ~Continues(platform_name, continue_session),
                write_failed |-> ~Continues(platform_name, continue_session) /\ ~ok,
                session_id |-> ReturnedSession(platform_name, continue_session, head)]

(* ------------- SessionManager.cleanup_old_sessions, as a step ---------- *)
(* session_data.get("created_timestamp", 0) *)
created_timestamp(session_data) ==
  IF "created_timestamp" \in DOMAIN session_data
    THEN session_data.created_timestamp ELSE 0

ManagerCleanup(max_age_days) ==
  LET cutoff_time == now - max_age_days
      sessions_to_remove ==
        {k \in DOMAIN sessions : created_timestamp(sessions[k]) < cutoff_time}
  IN /\ sessions' = Drop(sessions, sessions_to_remove)
     /\ lastOp' = [op |-> "SessionManager.cleanup_old_sessions",
                   days |-> max_age_days, cutoff |-> cutoff_time,
                   ret |-> Cardinality(sessions_to_remove)]
     /\ UNCHANGED <<peer, platform_prefixes, mappings, disk, now, nextId, lastSession,
                    cfg, result, gen, removed, maxCutoff, lastNew, writeFailed>>

(* ------------------------------ the clock ------------------------------ *)
Tick ==
  /\ now < MaxTime
  /\ now' = now + 1
  /\ UNCHANGED <<peer, platform_prefixes, mappings, disk, nextId, lastSession, sessions,
                 cfg, result, gen, removed, maxCutoff, lastNew, writeFailed, lastOp>>

(* the mapper alone, every write of the document succeeding *)
MapperArgs == {"alpha", "zeta"}

MapperHeads == {<<"a", "7">>}

Next ==
  \/ \E p \in MapperArgs, h \in MapperHeads : Generate(p, h, TRUE)
  \/ \E s \in KnownIds : Touch(s, TRUE)
  \/ \E d \in 0..MaxDays : Cleanup(d, TRUE)
  \/ Tick

Spec == Init /\ [][Next]_vars

(* generation with every platform argument and every sampled random value *)
NextIds ==
  \/ \E p \in PlatformArgs, h \in RandHeads : Generate(p, h, TRUE)
  \/ Tick

SpecIds == Init /\ [][NextIds]_vars

(* the mapper when a write of the document may fail *)
NextIO ==
  \/ \E h \in MapperHeads, ok \in BOOLEAN : Generate("alpha", h, ok)
  \/ \E s \in KnownIds : Touch(s, TRUE)
  \/ \E d \in 0..MaxDays : Cleanup(d, TRUE)
  \/ Tick

SpecIO == InitIO /\ [][NextIO]_vars

(* the mapper with the two extreme retention periods *)
FarDays == 999999

(* the platform whose sessions the one-platform specifications make *)
QueryPlatform == "alpha"

NextCleanup ==
  \/ \E h \in MapperHeads : Generate(QueryPlatform, h, TRUE)
  \/ \E s \in KnownIds : Touch(s, TRUE)
  \/ \E d \in {0, FarDays} : Cleanup(d, TRUE)
  \/ Tick

SpecCleanup == Init /\ [][NextCleanup]_vars

(* ----------------- the remaining queries, as steps --------------------- *)
RECURSIVE CountActive(_, _)
CountActive(list, within) ==
  IF list = <<>> THEN 0
  ELSE (IF now - Effective(Head(list)) <= within THEN 1 ELSE 0)
       + CountActive(Tail(list), within)

NoStatistics == [total_sessions |-> Absent, platform_stats |-> EmptyMap]

(* get_statistics, lines 400-427; {} when reading the document raises *)
get_statistics(store) ==
  IF ~store.valid THEN NoStatistics
  ELSE [total_sessions |-> Cardinality(DOMAIN store.mappings),
        platform_stats |->
          [p \in DOMAIN store.platform_sessions |->
             [total_sessions |-> Len(store.platform_sessions[p]),
              active_sessions_24h |-> CountActive(store.platform_sessions[p], 1),
              active_sessions_7d |-> CountActive(store.platform_sessions[p], 7)]]]

Answer(op, session_id, ret) ==
  /\ lastOp' = [op |-> op, session_id |-> session_id, ret |-> ret]
  /\ UNCHANGED <<peer, platform_prefixes, mappings, disk, now, nextId, lastSession,
                 sessions, cfg, result, gen, removed, maxCutoff, lastNew, writeFailed>>

GetPlatformFromSession(session_id) ==
  Answer("get_platform_from_session", session_id,
         get_platform_from_session(mappings, session_id))

GetStandardUuid(session_id) ==
  Answer("get_standard_uuid", session_id, get_standard_uuid(mappings, session_id))

GetPrefixUuid(standard_uuid) ==
  Answer("get_prefix_uuid", standard_uuid, get_prefix_uuid(mappings, standard_uuid))

GetStatistics ==
  /\ lastOp' = [op |-> "get_statistics", ret |-> get_statistics(mappings)]
  /\ UNCHANGED <<peer, platform_prefixes, mappings, disk, now, nextId, lastSession,
                 sessions, cfg, result, gen, removed, maxCutoff, lastNew, writeFailed>>

(* generate, touch and the per-platform listing *)
TaggedIds == {gen[c].tagged : c \in DOMAIN gen}

NextList ==
  \/ \E p \in MapperArgs, h \in MapperHeads : Generate(p, h, TRUE)
  \/ \E s \in TaggedIds : Touch(s, TRUE)
  \/ \E p \in MapperArgs, n \in {1, 2} : GetPlatformSessions(p, n)
  \/ Tick

SpecList == Init /\ [][NextList]_vars

(* one mapper: every mutation and every query of one platform's sessions *)
(* the ids asked about: both ids of the first session and an unknown one *)
AskedIds == {s \in KnownIds : Len(s) < 3 \/ s[3] = "1"}

NextQuery ==
  \/ \E h \in MapperHeads : Generate(QueryPlatform, h, TRUE)
  \/ \E s \in AskedIds : Touch(s, TRUE)
  \/ \E d \in {0, 1} : Cleanup(d, TRUE)
  \/ \E s \in AskedIds : GetPlatformFromSession(s)
  \/ \E s \in AskedIds : GetStandardUuid(s)
  \/ \E s \in AskedIds : GetPrefixUuid(s)
  \/ \E n \in {1} : GetPlatformSessions(QueryPlatform, n)
  \/ GetRecentSessions
  \/ GetStatistics
  \/ Tick

SpecQuery == Init /\ [][NextQuery]_vars

(* the session manager on top of the mapper *)
NextManager ==
  \/ \E p \in MapperArgs, c \in BOOLEAN, h \in MapperHeads :
       CreateOrGet(p, c, h, TRUE)
  \/ \E d \in 0..MaxDays : Cleanup(d, TRUE)
  \/ \E d \in 0..MaxDays : ManagerCleanup(d)
  \/ Tick

SpecManager == Init /\ [][NextManager]_vars

(* ------------------- a second launcher process ------------------------ *)
(* SessionMapper.__init__ in the second process: the document is read once *)
PeerStart ==
  /\ ~peer.started
  /\ peer' = [started |-> TRUE, mappings |-> load_mappings(disk),
              loaded |-> AnyIds(load_mappings(disk)), made |-> {}]
  /\ lastOp' = [op |-> "peer.__init__"]
  /\ UNCHANGED <<platform_prefixes, mappings, disk, now, nextId, lastSession,
                 sessions, cfg, result, gen, removed, maxCutoff, lastNew, writeFailed>>

(* mutation: generate reads the document again before it adds the session *)
generate_base_reloaded(memory, d) == load_mappings(d)

(* generate_dual_uuids works on self.mappings as loaded by __init__ *)
generate_base(memory, d) == memory

(* generate_dual_uuids in the second process; the whole document is rewritten *)
PeerGenerate(platform, head) ==
  LET base == generate_base(peer.mappings, disk)
      after == AddSession(base, platform, GenStandard(head), now)
  IN /\ peer.started
     /\ base.valid
     /\ nextId <= MaxSessions
     /\ nextId' = nextId + 1
     /\ gen' = Put(gen, GenStandard(head),
                   [tagged |-> GenPrefix(platform, head), platform |-> platform,
                    fallback |-> FALSE, active |-> now])
     /\ peer' = [peer EXCEPT !.mappings = Stamp(after, now),
                              !.made = @ \cup {GenStandard(head)}]
     /\ disk' = save_mappings(after, now, TRUE, disk)
     /\ lastOp' = [op |-> "peer.generate_dual_uuids", platform |-> platform,
                   standard_uuid |-> GenStandard(head),
                   prefix_uuid |-> GenPrefix(platform, head)]
     /\ UNCHANGED <<platform_prefixes, mappings, now, lastSession, sessions, cfg,
                    result, removed, maxCutoff, lastNew, writeFailed>>

NextTwo ==
  \/ \E p \in MapperArgs, h \in MapperHeads : Generate(p, h, TRUE)
  \/ PeerStart
  \/ \E p \in MapperArgs, h \in MapperHeads : PeerGenerate(p, h)
  \/ Tick

SpecTwo == Init /\ [][NextTwo]_vars

(* the manager when writing the mapping document may fail *)
NextManagerWrite ==
  \/ \E p \in MapperArgs, c \in BOOLEAN, h \in MapperHeads, ok \in BOOLEAN :
       CreateOrGet(p, c, h, ok)
  \/ \E s \in KnownIds : GetPlatformFromSession(s)
  \/ \E s \in KnownIds : GetStandardUuid(s)
  \/ Tick

SpecManagerWrite == Init /\ [][NextManagerWrite]_vars

(* the same, when the mapping file may hold a document without the maps *)
SpecManagerIO == InitIO /\ [][NextManager]_vars

(* ------------------- detect_platform, as a step ------------------------ *)
InitResolve ==
  /\ cfg \in Configs
  /\ result = NoResult
  /\ disk = NoFile
  /\ InitMapper

Detect(requested) ==
  /\ result' = detect_platform(requested, cfg)
  /\ lastOp' = [op |-> "detect_platform", requested |-> requested]
  /\ UNCHANGED <<peer, cfg, platform_prefixes, mappings, disk, now, nextId, lastSession,
                 sessions, gen, removed, maxCutoff, lastNew, writeFailed>>

NextResolve == \E t \in Tokens : Detect(t)

SpecResolve == InitResolve /\ [][NextResolve]_vars

(* ------------- the ordinal table of any registry, and generation ------- *)
OrdinalIds == {"Alpha", "alpha", "beta"}

OrdinalArgs == {"Alpha", "alpha", "beta", "zeta"}

(* registries of one to three distinct ids, in any stored order *)
OrdinalRegistries ==
  {r \in UNION {[1..n -> [id : OrdinalIds, profile : {Profile(TRUE, "K", "", "", "M")}]] :
                  n \in 1..3} :
     \A i, j \in 1..Len(r) : i # j => r[i].id # r[j].id}

InitOrdinal ==
  /\ cfg \in [platforms : OrdinalRegistries, default_platform : {""},
               aliases : {EmptyMap}]
  /\ result = NoResult
  /\ disk = NoFile
  /\ InitMapper

NextOrdinal ==
  \/ \E p \in OrdinalArgs, h \in MapperHeads : Generate(p, h, TRUE)
  \/ Tick

SpecOrdinal == InitOrdinal /\ [][NextOrdinal]_vars

(* ------------- one profile of any shape: availability, environment ----- *)
(* a key that the profile dict does not have *)
NoKey == "<missing>"

FullProfiles ==
  [enabled : BOOLEAN, api_key : {"", "K"}, auth_token : {"", "T"},
   login_token : {"", "L"}, model : {"", "M"}, name : {"", "N"},
   api_base_url : {"", "U"}, small_model : {NoKey, "", "S"},
   max_output_tokens : {"", "8"}]

(* PlatformDetector.validate_platform_config *)
validate_platform_config(platform_name, platforms_config) ==
  IF platform_name \in Keys(platforms_config.platforms)
    THEN is_platform_available(ProfileAt(platforms_config.platforms, platform_name))
    ELSE FALSE

(* dict.update *)
Merge(f, g) ==
  [x \in (DOMAIN f) \cup (DOMAIN g) |-> IF x \in DOMAIN g THEN g[x] ELSE f[x]]

vars_to_clear ==
  {"ANTHROPIC_API_KEY", "ANTHROPIC_AUTH_TOKEN", "ANTHROPIC_BASE_URL",
   "ANTHROPIC_API_URL", "ANTHROPIC_API_VERSION", "ANTHROPIC_CUSTOM_HEADERS",
   "ANTHROPIC_DEFAULT_HEADERS", "ANTHROPIC_MODEL", "ANTHROPIC_SMALL_FAST_MODEL",
   "ANTHROPIC_SMALL_FAST_MODEL_AWS_REGION", "ANTHROPIC_TIMEOUT_MS",
   "ANTHROPIC_REQUEST_TIMEOUT", "ANTHROPIC_MAX_RETRIES",
   "ANTHROPIC_DEFAULT_HAIKU_MODEL", "ANTHROPIC_DEFAULT_OPUS_MODEL",
   "ANTHROPIC_DEFAULT_SONNET_MODEL", "CLAUDE_CODE_MAX_OUTPUT_TOKENS",
   "MOONSHOT_API_KEY", "DEEPSEEK_API_KEY", "SILICONFLOW_API_KEY",
   "CLAUDE_API_KEY", "CLAUDE_AUTH_TOKEN", "CLAUDE_BASE_URL", "CLAUDE_MODEL"}

clear_existing_env_vars(environ) == Drop(environ, vars_to_clear)

(* mutation: auth_token is looked at before api_key *)
credential_vars_authfirst(platform_config) ==
  IF platform_config.auth_token # ""
    THEN ("ANTHROPIC_AUTH_TOKEN" :> platform_config.auth_token) @@
         ("ANTHROPIC_API_KEY" :> "")
  ELSE IF platform_config.api_key # ""
    THEN ("ANTHROPIC_API_KEY" :> platform_config.api_key) @@
         ("ANTHROPIC_AUTH_TOKEN" :> "")
  ELSE IF platform_config.login_token # ""
    THEN ("ANTHROPIC_API_KEY" :> platform_config.login_token) @@
         ("ANTHROPIC_AUTH_TOKEN" :> "")
  ELSE EmptyMap

(* lines 100-108: the credential, by priority *)
credential_vars(platform_config) ==
  IF platform_config.api_key # ""
    THEN ("ANTHROPIC_API_KEY" :> platform_config.api_key) @@
         ("ANTHROPIC_AUTH_TOKEN" :> "")
  ELSE IF platform_config.auth_token # ""
    THEN ("ANTHROPIC_AUTH_TOKEN" :> platform_config.auth_token) @@
         ("ANTHROPIC_API_KEY" :> "")
  ELSE IF platform_config.login_token # ""
    THEN ("ANTHROPIC_API_KEY" :> platform_config.login_token) @@
         ("ANTHROPIC_AUTH_TOKEN" :> "")
  ELSE EmptyMap

(* lines 110-131: base url, model and its mirrors, small model, tokens *)
model_vars(platform_config) ==
  LET model == platform_config.model
      small_model == IF platform_config.small_model = NoKey
                       THEN model ELSE platform_config.small_model
      url == IF platform_config.api_base_url # ""
               THEN ("ANTHROPIC_BASE_URL" :> platform_config.api_base_url)
               ELSE EmptyMap
      main == IF model # ""
                THEN [k \in {"ANTHROPIC_MODEL", "ANTHROPIC_DEFAULT_HAIKU_MODEL",
                             "ANTHROPIC_DEFAULT_SONNET_MODEL",
                             "ANTHROPIC_DEFAULT_OPUS_MODEL"} |-> model]
                ELSE EmptyMap
      small == IF small_model # ""
                 THEN ("ANTHROPIC_SMALL_FAST_MODEL" :> small_model) ELSE EmptyMap
      tokens == IF platform_config.max_output_tokens # ""
                  THEN ("CLAUDE_CODE_MAX_OUTPUT_TOKENS" :>
                          platform_config.max_output_tokens)
                  ELSE EmptyMap
  IN Merge(Merge(Merge(url, main), small), tokens)

(* lines 141-148: on Windows, when a Git Bash executable is found *)
git_bash_vars(git_bash_path) ==
  IF git_bash_path # None
    THEN [k \in {"CLAUDE_CODE_GIT_BASH_PATH", "GIT_BASH_PATH", "GIT_BASH"} |->
            git_bash_path]
    ELSE EmptyMap

setup_new_env_vars(platform_config, git_bash_path) ==
  Merge(Merge(credential_vars(platform_config), model_vars(platform_config)),
        git_bash_vars(git_bash_path))

(* os.environ before the launcher runs *)
Environs ==
  {EmptyMap,
   [k \in {"ANTHROPIC_AUTH_TOKEN", "ANTHROPIC_MODEL", "PATH"} |-> "old"]}

GitBashPaths == {None, "bash.exe"}

InitProfile ==
  /\ cfg \in [platforms : {<<[id |-> "alpha", profile |-> pr]>> : pr \in FullProfiles},
               default_platform : {""}, aliases : {EmptyMap}]
  /\ result = NoResult
  /\ disk = NoFile
  /\ InitMapper

Validate(platform_name) ==
  /\ lastOp' = [op |-> "validate_platform_config", platform |-> platform_name,
                ret |-> validate_platform_config(platform_name, cfg)]
  /\ UNCHANGED <<peer, cfg, result, platform_prefixes, mappings, disk, now, nextId,
                 lastSession, sessions, gen, removed, maxCutoff, lastNew, writeFailed>>

(* setup_environment, then launch_env = os.environ.copy() updated with it *)
SetupEnvironment(platform_name, environ, git_bash_path) ==
  LET platform_config == ProfileAt(cfg.platforms, platform_name)
      env_vars == setup_new_env_vars(platform_config, git_bash_path)
  IN /\ lastOp' = [op |-> "setup_environment", platform |-> platform_name,
                   env_vars |-> env_vars,
                   launch_env |-> Merge(clear_existing_env_vars(environ), env_vars)]
     /\ UNCHANGED <<peer, cfg, result, platform_prefixes, mappings, disk, now, nextId,
                    lastSession, sessions, gen, removed, maxCutoff, lastNew,
                    writeFailed>>

NextProfile ==
  \/ \E p \in MapperArgs : Validate(p)
  \/ \E e \in Environs, g \in GitBashPaths : SetupEnvironment("alpha", e, g)

SpecProfile == InitProfile /\ [][NextProfile]_vars

(* ---------------------- launcher.py: one launch run -------------------- *)
(* _create_settings_env_config, lines 565-601 *)
create_settings_env_config(platform_config) ==
  LET model == platform_config.model
      cred == IF platform_config.api_key # ""
                THEN ("ANTHROPIC_API_KEY" :> platform_config.api_key) @@
                     ("ANTHROPIC_AUTH_TOKEN" :> "")
              ELSE IF platform_config.auth_token # ""
                THEN ("ANTHROPIC_AUTH_TOKEN" :> platform_config.auth_token) @@
                     ("ANTHROPIC_API_KEY" :> "")
              ELSE EmptyMap
      url == IF platform_config.api_base_url # ""
               THEN ("ANTHROPIC_BASE_URL" :> platform_config.api_base_url)
               ELSE EmptyMap
      models == IF model # ""
                  THEN [k \in {"ANTHROPIC_MODEL", "ANTHROPIC_DEFAULT_HAIKU_MODEL",
                               "ANTHROPIC_DEFAULT_SONNET_MODEL",
                               "ANTHROPIC_DEFAULT_OPUS_MODEL"} |-> model] @@
                       ("ANTHROPIC_SMALL_FAST_MODEL" :>
                          IF platform_config.small_model = NoKey
                            THEN model ELSE platform_config.small_model)
                  ELSE EmptyMap
  IN Merge(Merge(cred, url), models)

(* the outcome of subprocess.run: the command is started or not found *)
Runs ==
  {[started |-> FALSE, returncode |-> 0], [started |-> TRUE, returncode |-> 0],
   [started |-> TRUE, returncode |-> 2]}

(* where Ctrl-C arrives, if the run gets that far *)
InterruptPoints == {"never", "start", "session", "tool"}

(* mutation: the code of the tool is not passed on *)
run_exit_zero(run, interrupted) ==
  IF interrupted THEN 130
  ELSE IF ~run.started THEN 1
  ELSE 0

(* lines 415-430: subprocess.run and its two except branches *)
run_exit(run, interrupted) ==
  IF interrupted THEN 130
  ELSE IF ~run.started THEN 1
  ELSE run.returncode

LaunchProfiles ==
  {pr \in FullProfiles :
     /\ pr.name = "N" /\ pr.api_base_url = "U" /\ pr.model = "M"
     /\ pr.small_model = NoKey /\ pr.max_output_tokens = ""
     /\ \/ pr.enabled /\ Cardinality({f \in {"api_key", "auth_token", "login_token"} :
                                         pr[f] # ""}) = 1
        \/ ~pr.enabled /\ pr.api_key = "K" /\ pr.auth_token = ""
                       /\ pr.login_token = ""}

InitLaunch ==
  /\ cfg \in [platforms : {<<[id |-> "alpha", profile |-> pr]>> : pr \in LaunchProfiles},
               default_platform : {""}, aliases : {EmptyMap}]
  /\ result = NoResult
  /\ disk = NoFile
  /\ InitMapper

NoSettings == [written |-> FALSE, env |-> EmptyMap]

(* main(), lines 324-436, for a run without --set-default; the process has *)
(* loaded the mapping document when it started.  The record of the run     *)
(* keeps what the surroundings did: whether a platform resolved, whether   *)
(* the claude command was detected, what subprocess.run did, and where the *)
(* interrupt was to arrive.                                                *)
Launch(requested, continue_session, head, claude_cmd, at, run, environ, settings_found) ==
  LET platform_info == detect_platform(requested, cfg)
      env_vars == setup_new_env_vars(platform_info.profile, None)
      launch_env == Merge(clear_existing_env_vars(environ), env_vars)
      settings == IF settings_found
                    THEN [written |-> TRUE,
                          env |-> create_settings_env_config(platform_info.profile)]
                    ELSE NoSettings
      same == <<peer, platform_prefixes, mappings, disk, now, nextId, lastSession, sessions,
                cfg, result, gen, removed, maxCutoff, lastNew, writeFailed>>
      Ended(code, launched) ==
        [op |-> "main", exit |-> code, resolved |-> platform_info.found,
         platform |-> platform_info.id, claude_cmd |-> claude_cmd, at |-> at,
         run |-> run,
         launch_env |-> IF launched THEN launch_env ELSE EmptyMap,
         settings |-> IF launched THEN settings ELSE NoSettings]
  IN /\ mappings = load_mappings(disk)
     /\ at = "tool" => run.started
     /\ IF at = "start"
          THEN lastOp' = Ended(130, FALSE) /\ UNCHANGED same
        ELSE IF ~platform_info.found
          THEN lastOp' = Ended(1, FALSE) /\ UNCHANGED same
        ELSE IF env_vars = EmptyMap
          THEN lastOp' = Ended(1, FALSE) /\ UNCHANGED same
        ELSE /\ CreateOrGetEffects(platform_info.id, continue_session, head, TRUE)
             /\ lastOp' = IF at = "session" THEN Ended(130, FALSE)
                          ELSE IF ~claude_cmd THEN Ended(1, FALSE)
                          ELSE Ended(run_exit(run, at = "tool"), TRUE)

NextLaunch ==
  \/ \E t \in {"", "alpha"}, c \in BOOLEAN, h \in MapperHeads,
         f \in BOOLEAN, at \in InterruptPoints, r \in Runs,
         e \in Environs \ {EmptyMap}, sf \in BOOLEAN :
       Launch(t, c, h, f, at, r, e, sf)
  \/ Tick

SpecLaunch == InitLaunch /\ [][NextLaunch]_vars


(* ======================================================================= *)
(*                               Claims                                    *)
(* ======================================================================= *)
Sessions == {c \in DOMAIN gen : ~gen[c].fallback}

Present(store, c) ==
  /\ store.valid
  /\ c \in ListIds(store)
  /\ c \in FwdIds(store)
  /\ c \in RevIds(store)

ListEntry(store, c) ==
  LET list == store.platform_sessions[gen[c].platform]
  IN list[CHOOSE i \in 1..Len(list) : list[i].standard_uuid = c]

IsStep(op) == now' = now /\ lastOp'.op = op

(* C1: for every generated session whose effective activity timestamp is   *)
(* not older than the cutoff of any cleanup performed so far, platform_of  *)
(* of its tagged id returns the platform it was generated for.             *)
C1_PlatformOfGenerated ==
  \A c \in Sessions :
    gen[c].active >= maxCutoff =>
      get_platform_from_session(mappings, gen[c].tagged) = gen[c].platform

(* C2 (as stated): every canonical id X returned by generate_dual_ids and  *)
(* not removed by cleanup has a tagged id, and canonical_of(tagged_of(X))  *)
(* is X.                                                                   *)
RoundTrip(c) ==
  /\ get_prefix_uuid(mappings, c) # NoId
  /\ get_standard_uuid(mappings, get_prefix_uuid(mappings, c)) = c

C2_RoundTripEveryReturned ==
  \A c \in DOMAIN gen : c \notin removed => RoundTrip(c)

(* C2 (amended): every canonical id X returned by generate_dual_ids on its *)
(* normal (non-fallback) path and not removed by cleanup has a tagged id,  *)
(* and canonical_of(tagged_of(X)) is X, also after further generate and    *)
(* touch calls.                                                            *)
C2_RoundTripGenerated ==
  \A c \in Sessions : c \notin removed => RoundTrip(c)

C2_Witness ==
  \E c \in Sessions, d \in Sessions :
    /\ c # d
    /\ c \notin removed
    /\ gen[c].tagged \in DOMAIN mappings.mappings
    /\ mappings.mappings[gen[c].tagged].last_active # Absent
    /\ removed # {}

(* C3 (as stated): on the normal path tagged_id and canonical_id differ in *)
(* exactly the first two characters and agree in every other position.     *)
SameTail(a, b) ==
  /\ Len(a) = Len(b)
  /\ \A i \in 3..Len(a) : a[i] = b[i]

ResolvedId(token, config) ==
  IF Lower(token) \in DOMAIN config.aliases
    THEN config.aliases[Lower(token)] ELSE Lower(token)

C4_UnknownRequestFails ==
  (/\ lastOp.op = "detect_platform"
   /\ lastOp.requested # ""
   /\ ResolvedId(lastOp.requested, cfg) \notin Keys(cfg.platforms))
    => result = NoResult

(* C5: resolve with a non-empty token that resolves to a registry entry    *)
(* which is disabled or has no credential returns none, even when the      *)
(* default platform or another entry is available.                         *)
NoCredential(profile) ==
  profile.api_key = "" /\ profile.auth_token = "" /\ profile.login_token = ""

C5_UnavailableRequestFails ==
  (/\ lastOp.op = "detect_platform"
   /\ lastOp.requested # ""
   /\ ResolvedId(lastOp.requested, cfg) \in Keys(cfg.platforms)
   /\ LET profile == ProfileAt(cfg.platforms, ResolvedId(lastOp.requested, cfg))
      IN ~profile.enabled \/ NoCredential(profile))
    => result = NoResult

C5_Witness ==
  /\ lastOp.op = "detect_platform"
  /\ lastOp.requested = "b"
  /\ "b" \in DOMAIN cfg.aliases
  /\ cfg.aliases["b"] = "beta"
  /\ "beta" \in Keys(cfg.platforms)
  /\ ~ProfileAt(cfg.platforms, "beta").enabled
  /\ cfg.default_platform = "alpha"
  /\ "alpha" \in Keys(cfg.platforms)
  /\ is_platform_available(ProfileAt(cfg.platforms, "alpha"))
  /\ result = NoResult

(* C6: when create_or_continue(P, false) returned session S and no cleanup *)
(* has removed S, create_or_continue(P, true) returns S's tagged id and    *)
(* adds no record to the mapping store.                                    *)
CanonicalOfTagged(t) == {c \in DOMAIN gen : gen[c].tagged = t}

C6_ContinueReturnsLast ==
  [][(/\ IsStep("create_or_get_session")
      /\ lastOp'.continue_session
      /\ lastNew[lastOp'.platform] # NoId
      /\ CanonicalOfTagged(lastNew[lastOp'.platform]) \cap removed = {})
       => (/\ lastOp'.session_id = lastNew[lastOp'.platform]
           /\ mappings' = mappings)]_vars

(* C7: touch of an existing session, by tagged or canonical id, either     *)
(* sets last_active to the same new time in the forward map, the reverse   *)
(* map and the platform session list and returns true, or returns false.   *)
C7_TouchAllThree ==
  (/\ lastOp.op = "update_session_activity"
   /\ lastOp.ret
   /\ Present(mappings, lastOp.standard_uuid))
    => LET c == lastOp.standard_uuid
       IN /\ mappings.mappings[gen[c].tagged].last_active = gen[c].active
          /\ mappings.reverse_mappings[c].last_active = gen[c].active
          /\ ListEntry(mappings, c).last_active = gen[c].active

(* C8: cleanup removes exactly the sessions whose effective activity       *)
(* timestamp is older than the cutoff from all three structures, keeps     *)
(* every other session in all three, and returns the number removed.       *)
C8_CleanupExact ==
  [][IsStep("cleanup_old_sessions") =>
       LET existing == {c \in Sessions : Present(mappings, c)}
           old == {c \in existing : gen[c].active < lastOp'.cutoff}
       IN /\ \A c \in old :
               /\ c \notin ListIds(mappings')
               /\ c \notin FwdIds(mappings')
               /\ c \notin RevIds(mappings')
          /\ \A c \in existing \ old : Present(mappings', c)
          /\ lastOp'.ret = Cardinality(old)]_vars

(* C9: provided file writes succeed, when generate_dual_ids, touch or      *)
(* cleanup returns, the persisted document equals the in-memory store.     *)
C9_PersistedEqualsMemory ==
  (/\ lastOp.op \in {"generate_dual_uuids", "update_session_activity",
                     "cleanup_old_sessions"}
   /\ ~writeFailed)
    => load_mappings(disk) = mappings

OrdinalOwner(session_id) ==
  LET owners == {p \in DOMAIN platform_prefixes :
                   platform_prefixes[p] = SubSeq(session_id, 1, 2)}
  IN IF owners = {} THEN None ELSE CHOOSE p \in owners : TRUE

C11_InferFromOrdinal ==
  \A s \in KnownIds :
    (/\ mappings.valid
     /\ s \notin DOMAIN mappings.mappings
     /\ s \notin DOMAIN mappings.reverse_mappings)
      => get_platform_from_session(mappings, s) = OrdinalOwner(s)

(* C12: the ordinal table gives the i-th platform id, in alphabetical order *)
(* of the ids, the two-decimal-digit string of i counted from 1; computing  *)
(* it again from the same registry gives the same table; and the tagged id  *)
(* returned by generate_dual_ids(P) starts with ordinal(P) for every        *)
(* configured id P and with "xx" for an id that is not configured.          *)
AlphabeticalIndex(p, ids) == Cardinality({q \in ids : Rank(q) < Rank(p)}) + 1

TwoDigits(i) == <<ToString(i \div 10), ToString(i % 10)>>

C12_OrdinalOfConfigured ==
  LET ids == Keys(cfg.platforms)
  IN /\ DOMAIN platform_prefixes = ids
     /\ \A p \in ids : platform_prefixes[p] = TwoDigits(AlphabeticalIndex(p, ids))
     /\ generate_platform_prefixes(ids) = platform_prefixes
     /\ \A c \in Sessions :
          SubSeq(gen[c].tagged, 1, 2) =
            IF gen[c].platform \in ids THEN platform_prefixes[gen[c].platform]
            ELSE <<"x", "x">>

(* C13: resolve with an empty request returns the configured                *)
(* default_platform id with its profile whenever that id is in the         *)
(* registry and its profile is available, whatever the order and           *)
(* availability of the other entries.                                      *)
DefaultUsable ==
  /\ cfg.default_platform \in Keys(cfg.platforms)
  /\ is_platform_available(ProfileAt(cfg.platforms, cfg.default_platform))

C13_EmptyRequestGivesDefault ==
  (/\ lastOp.op = "detect_platform"
   /\ lastOp.requested = ""
   /\ DefaultUsable)
    => result = Found(cfg.default_platform,
                      ProfileAt(cfg.platforms, cfg.default_platform))

C13_Witness ==
  /\ lastOp.op = "detect_platform"
  /\ lastOp.requested = ""
  /\ Len(cfg.platforms) = 2
  /\ cfg.platforms[1].id = "alpha"
  /\ is_platform_available(cfg.platforms[1].profile)
  /\ cfg.default_platform = "beta"
  /\ DefaultUsable
  /\ result.found
  /\ result.id = "beta"

(* C14: resolve with an empty request, when default_platform is unset, not  *)
(* in the registry or not available, returns the first available entry in  *)
(* the registry's stored order, and returns none exactly when no entry is  *)
(* available.                                                              *)
AvailableAt ==
  {i \in 1..Len(cfg.platforms) : is_platform_available(cfg.platforms[i].profile)}

C14_EmptyRequestGivesFirstAvailable ==
  (/\ lastOp.op = "detect_platform"
   /\ lastOp.requested = ""
   /\ ~DefaultUsable)
    => /\ result.found <=> AvailableAt # {}
       /\ result.found =>
            \E k \in AvailableAt :
              /\ \A j \in 1..(k - 1) : j \notin AvailableAt
              /\ result = Found(cfg.platforms[k].id, cfg.platforms[k].profile)
       /\ ~result.found => result = NoResult

C14_Witness ==
  /\ lastOp.op = "detect_platform"
  /\ lastOp.requested = ""
  /\ Len(cfg.platforms) = 2
  /\ cfg.default_platform = cfg.platforms[1].id
  /\ ~is_platform_available(cfg.platforms[1].profile)
  /\ is_platform_available(cfg.platforms[2].profile)
  /\ result = Found(cfg.platforms[2].id, cfg.platforms[2].profile)

(* C15: alias resolution is case-insensitive: for every alias entry         *)
(* a -> id whose target id is available, resolve(t) returns id with its    *)
(* profile for every token t equal to a when letter case is ignored,       *)
(* whatever letter case the alias key or the token is written in.          *)
C15_AliasIgnoresCase ==
  lastOp.op = "detect_platform" =>
    \A a \in DOMAIN cfg.aliases :
      (/\ lastOp.requested # ""
       /\ Lower(lastOp.requested) = Lower(a)
       /\ cfg.aliases[a] \in Keys(cfg.platforms)
       /\ is_platform_available(ProfileAt(cfg.platforms, cfg.aliases[a])))
        => result = Found(cfg.aliases[a], ProfileAt(cfg.platforms, cfg.aliases[a]))

(* C16 (as stated): is_available(profile) is true if and only if enabled is *)
(* true, exactly one of api_key, auth_token, login_token is non-empty, and *)
(* api_base_url and model are both non-empty.                              *)
Credentials(profile) ==
  {f \in {"api_key", "auth_token", "login_token"} : profile[f] # ""}

Validated == ProfileAt(cfg.platforms, lastOp.platform)

C16_AvailableIffExactlyOneCredential ==
  (lastOp.op = "validate_platform_config" /\ lastOp.platform \in Keys(cfg.platforms))
    => (lastOp.ret <=> /\ Validated.enabled
                       /\ Cardinality(Credentials(Validated)) = 1
                       /\ Validated.api_base_url # ""
                       /\ Validated.model # "")

(* C16 (amended): is_available(profile) is true if and only if enabled is   *)
(* true, at least one of api_key, auth_token, login_token is non-empty,    *)
(* and name, api_base_url and model are all non-empty; no other field of   *)
(* the profile influences the result.                                      *)
C16_AvailableIffSomeCredential ==
  (lastOp.op = "validate_platform_config" /\ lastOp.platform \in Keys(cfg.platforms))
    => (lastOp.ret <=> /\ Validated.enabled
                       /\ Cardinality(Credentials(Validated)) >= 1
                       /\ Validated.name # ""
                       /\ Validated.api_base_url # ""
                       /\ Validated.model # "")

C16_Witness ==
  /\ lastOp.op = "validate_platform_config"
  /\ lastOp.platform \in Keys(cfg.platforms)
  /\ Cardinality(Credentials(Validated)) = 2
  /\ Validated.small_model = "S"
  /\ lastOp.ret

(* C17: for any profile with one or more credential fields populated, the   *)
(* environment of the launched process carries exactly one credential: the *)
(* value of the highest-priority populated field (api_key over auth_token  *)
(* over login_token) in one credential variable, the other credential      *)
(* variable being set to the empty string; the model value is in the model *)
(* variable and the three default-tier model variables; and the small/fast *)
(* model variable holds small_model, or model when the profile has no      *)
(* small_model.  A variable that is not set carries the empty value.       *)
Launched == ProfileAt(cfg.platforms, lastOp.platform)

Value(env, k) == IF k \in DOMAIN env THEN env[k] ELSE ""

TopCredential(profile) ==
  IF profile.api_key # "" THEN profile.api_key
  ELSE IF profile.auth_token # "" THEN profile.auth_token
  ELSE profile.login_token

CredentialVariables == {"ANTHROPIC_API_KEY", "ANTHROPIC_AUTH_TOKEN"}

C17_OneCredentialByPriority ==
  (lastOp.op = "setup_environment" /\ Credentials(Launched) # {})
    => LET env == lastOp.launch_env
       IN /\ CredentialVariables \subseteq DOMAIN env
          /\ \E k \in CredentialVariables :
               /\ env[k] = TopCredential(Launched)
               /\ \A o \in CredentialVariables \ {k} : env[o] = ""
          /\ \A k \in {"ANTHROPIC_MODEL", "ANTHROPIC_DEFAULT_HAIKU_MODEL",
                        "ANTHROPIC_DEFAULT_SONNET_MODEL",
                        "ANTHROPIC_DEFAULT_OPUS_MODEL"} :
               Value(env, k) = Launched.model
          /\ Value(env, "ANTHROPIC_SMALL_FAST_MODEL") =
               IF Launched.small_model = NoKey THEN Launched.model
               ELSE Launched.small_model

C17_Witness ==
  /\ lastOp.op = "setup_environment"
  /\ Launched.api_key = "K"
  /\ Launched.auth_token = "T"
  /\ Launched.login_token = "L"
  /\ Launched.model = "M"
  /\ Launched.small_model = NoKey
  /\ "PATH" \in DOMAIN lastOp.launch_env
  /\ lastOp.launch_env["ANTHROPIC_API_KEY"] = "K"
  /\ lastOp.launch_env["ANTHROPIC_AUTH_TOKEN"] = ""
  /\ lastOp.launch_env["ANTHROPIC_SMALL_FAST_MODEL"] = "M"

(* C18: cleanup(max_age_days) of the session manager removes from the       *)
(* mapper's store every session older than max_age_days (it returns the    *)
(* count of the mapper's cleanup), and after it returns no last-session    *)
(* pointer of any platform refers to a session that no longer exists.      *)
PointerTargets(files) ==
  {files[p].session_id : p \in {q \in DOMAIN files : files[q].exists}}

C18_ManagerCleanupDelegates ==
  [][IsStep("SessionManager.cleanup_old_sessions") =>
       /\ \A c \in Sessions :
            gen[c].active < lastOp'.cutoff => c \notin AnyIds(mappings')
       /\ lastOp'.ret = cleaned_count(mappings, lastOp'.cutoff)
       /\ \A t \in PointerTargets(lastSession') :
            t \in DOMAIN mappings'.mappings]_vars

(* C19 (as stated): whenever create_or_continue(P, ...) creates a new      *)
(* session, the last-session pointer of P afterwards holds that session's  *)
(* tagged id, which is the id returned to the caller and a key of the      *)
(* mapper's forward map, and the pointer of every other platform is        *)
(* unchanged.                                                              *)
C19_PointerFollowsCreation ==
  [][(IsStep("create_or_get_session") /\ lastOp'.created) =>
       LET P == lastOp'.platform
       IN /\ lastSession'[P].exists
          /\ lastSession'[P].session_id = lastOp'.session_id
          /\ lastOp'.session_id \in DOMAIN mappings'.mappings
          /\ \A q \in (DOMAIN lastSession) \ {P} :
               lastSession'[q] = lastSession[q]]_vars

(* C19 (amended): whenever create_or_continue(P, ...) creates a new         *)
(* session, the last-session pointer of P afterwards holds the id returned *)
(* to the caller and the pointer of every other platform is unchanged;     *)
(* that id is the session's tagged id and a new key of the mapper's        *)
(* forward map, recorded for P, unless generation fell back to a           *)
(* canonical-only id, in which case the mapper's store is unchanged.       *)
C19_PointerFollowsReturnedId ==
  [][(IsStep("create_or_get_session") /\ lastOp'.created) =>
       LET P == lastOp'.platform
       IN /\ lastSession'[P].exists
          /\ lastSession'[P].session_id = lastOp'.session_id
          /\ mappings.valid =>
               /\ lastOp'.session_id \notin DOMAIN mappings.mappings
               /\ lastOp'.session_id \in DOMAIN mappings'.mappings
               /\ mappings'.mappings[lastOp'.session_id].platform = P
          /\ ~mappings.valid => mappings' = mappings
          /\ \A q \in (DOMAIN lastSession) \ {P} :
               lastSession'[q] = lastSession[q]]_vars

C19_Witness ==
  /\ lastOp.op = "create_or_get_session"
  /\ lastOp.created
  /\ lastOp.platform = "zeta"
  /\ lastSession["zeta"].session_id = lastOp.session_id
  /\ lastSession["alpha"].exists
  /\ lastSession["alpha"].session_id # lastOp.session_id
  /\ lastSession["alpha"].session_id \in DOMAIN mappings.mappings

(* C20 (as stated): in any reachable store, cleanup(0) removes every        *)
(* existing session (the store is empty afterwards and the returned count  *)
(* equals the number of sessions that existed), and cleanup(999999)        *)
(* removes none (the store is unchanged and 0 is returned).                *)
EmptyOfSessions(store) ==
  /\ store.mappings = EmptyMap
  /\ store.reverse_mappings = EmptyMap
  /\ store.platform_sessions = EmptyMap

C20_ZeroRemovesAll ==
  [][IsStep("cleanup_old_sessions") =>
       /\ lastOp'.days = 0 =>
            /\ EmptyOfSessions(mappings')
            /\ lastOp'.ret = Cardinality(AnyIds(mappings))
       /\ lastOp'.days = FarDays =>
            /\ mappings' = mappings
            /\ lastOp'.ret = 0]_vars

(* C20 (amended): in any reachable store, cleanup(0) removes every session  *)
(* whose latest activity is earlier than the clock reading of the call;    *)
(* when that is so for every existing session the store is empty           *)
(* afterwards and the returned count equals the number of sessions that    *)
(* existed; a session stamped at the very clock reading of the call stays  *)
(* in the session list.  cleanup(999999) removes none (the store is        *)
(* unchanged and 0 is returned).                                           *)
C20_ZeroRemovesAllEarlier ==
  [][IsStep("cleanup_old_sessions") =>
       LET existing == {c \in Sessions : c \in AnyIds(mappings)}
           earlier == {c \in existing : gen[c].active < now}
       IN /\ lastOp'.days = 0 =>
               /\ \A c \in earlier : c \notin AnyIds(mappings')
               /\ \A c \in existing \ earlier : c \in ListIds(mappings')
               /\ earlier = existing =>
                    /\ EmptyOfSessions(mappings')
                    /\ lastOp'.ret = Cardinality(existing)
          /\ lastOp'.days = FarDays =>
               /\ mappings' = mappings
               /\ lastOp'.ret = 0]_vars

C20_Witness ==
  /\ lastOp.op = "cleanup_old_sessions"
  /\ lastOp.days = 0
  /\ lastOp.ret = 2
  /\ Cardinality(Sessions) = 2
  /\ EmptyOfSessions(mappings)
  /\ \E c \in Sessions : gen[c].active > 0

(* C21: a launch run ends with exit code 1 when no platform resolves or     *)
(* when the external tool cannot be located, with 130 when the user        *)
(* interrupts it (before or while the tool runs), and otherwise with       *)
(* exactly the exit code returned by the launched tool.                    *)
Interrupted ==
  \/ lastOp.at = "start"
  \/ lastOp.resolved /\ lastOp.at = "session"
  \/ lastOp.resolved /\ lastOp.claude_cmd /\ lastOp.at = "tool"

Located == lastOp.claude_cmd /\ lastOp.run.started

C21_ExitCodes ==
  lastOp.op = "main" =>
    lastOp.exit = IF Interrupted THEN 130
                  ELSE IF ~lastOp.resolved \/ ~Located THEN 1
                  ELSE lastOp.run.returncode

C21_Witness ==
  /\ lastOp.op = "main"
  /\ lastOp.resolved
  /\ Located
  /\ ~Interrupted
  /\ lastOp.run.returncode = 2
  /\ lastOp.exit = 2
  /\ lastOp.launch_env # EmptyMap

(* C22 (as stated): list_platform_sessions(P, limit), for limit >= 0,       *)
(* returns min(limit, number of sessions of P) records, all belonging to   *)
(* P, in non-increasing order of effective timestamp, and no omitted       *)
(* session of P is more recent than a returned one; a session that was     *)
(* just touched is listed first.                                           *)
Stored(P) ==
  IF P \in DOMAIN mappings.platform_sessions THEN mappings.platform_sessions[P] ELSE <<>>

Items(list) == {list[i] : i \in 1..Len(list)}

ListedWell(ret, P, limit) ==
  /\ Len(ret) = (IF limit < Len(Stored(P)) THEN limit ELSE Len(Stored(P)))
  /\ Items(ret) \subseteq Items(Stored(P))
  /\ Cardinality(Items(ret)) = Len(ret)
  /\ \A r \in Items(ret) : r.standard_uuid \in Sessions
                            /\ gen[r.standard_uuid].platform = P
  /\ \A i, j \in 1..Len(ret) : i < j => Effective(ret[i]) >= Effective(ret[j])
  /\ \A o \in Items(Stored(P)) \ Items(ret) :
       \A r \in Items(ret) : Effective(o) <= Effective(r)

JustTouched(c, P) ==
  /\ lastOp.op = "update_session_activity"
  /\ lastOp.ret
  /\ lastOp.standard_uuid = c
  /\ gen[c].platform = P

C22_TouchedListedFirst ==
  [][IsStep("get_platform_sessions") =>
       LET ret == lastOp'.ret
           P == lastOp'.platform
       IN /\ ListedWell(ret, P, lastOp'.limit)
          /\ \A c \in Sessions :
               (JustTouched(c, P) /\ lastOp'.limit >= 1)
                 => ret[1].standard_uuid = c]_vars

(* C22 (amended): list_platform_sessions(P, limit), for limit >= 0, returns *)
(* min(limit, number of sessions of P) records, all belonging to P, in     *)
(* non-increasing order of effective timestamp, and no omitted session of  *)
(* P is more recent than a returned one; a session that was just touched   *)
(* is listed first unless another session of P carries a timestamp that is *)
(* not earlier than the touch, and no record with an earlier timestamp is  *)
(* ever listed before it.                                                  *)
C22_TouchedListedFirstUnlessTie ==
  [][IsStep("get_platform_sessions") =>
       LET ret == lastOp'.ret
           P == lastOp'.platform
       IN /\ ListedWell(ret, P, lastOp'.limit)
          /\ \A c \in Sessions :
               (JustTouched(c, P) /\ lastOp'.limit >= 1) =>
                 /\ Effective(ret[1]) >= gen[c].active
                 /\ (\A o \in Items(Stored(P)) :
                       o.standard_uuid # c => Effective(o) < gen[c].active)
                      => ret[1].standard_uuid = c]_vars

C22_Witness ==
  /\ lastOp.op = "get_platform_sessions"
  /\ lastOp.limit = 1
  /\ Len(Stored(lastOp.platform)) = 2
  /\ Len(lastOp.ret) = 1
  /\ lastOp.ret[1] = Stored(lastOp.platform)[2]
  /\ Effective(Stored(lastOp.platform)[1]) < Effective(lastOp.ret[1])

(* C23: the only transition of a session is ACTIVE -> EXPIRED and only      *)
(* cleanup performs it: generate, touch and every query never remove an    *)
(* existing session from the forward map, the reverse map or its platform  *)
(* session list, and a session removed by cleanup is never present in the  *)
(* maps again.                                                             *)
NothingLeaves ==
  /\ FwdIds(mappings) \subseteq FwdIds(mappings')
  /\ RevIds(mappings) \subseteq RevIds(mappings')
  /\ ListIds(mappings) \subseteq ListIds(mappings')
  /\ DOMAIN mappings.mappings \subseteq DOMAIN mappings'.mappings
  /\ \A p \in DOMAIN mappings.platform_sessions :
       /\ p \in DOMAIN mappings'.platform_sessions
       /\ Len(mappings.platform_sessions[p]) <= Len(mappings'.platform_sessions[p])

C23_OnlyCleanupExpires ==
  [][/\ (now' = now /\ lastOp'.op # "cleanup_old_sessions") => NothingLeaves
     /\ \A c \in removed : c \notin FwdIds(mappings') \cup RevIds(mappings')]_vars

C23_Witness ==
  /\ lastOp.op = "get_recent_sessions"
  /\ removed # {}
  /\ FwdIds(mappings) # {}
  /\ FwdIds(mappings) \cap removed = {}

(* C27: the query operations of the mapper (platform_of, canonical_of,      *)
(* tagged_of, list_platform_sessions, list_recent_sessions, statistics)    *)
(* leave the in-memory store and the persisted document unchanged; the     *)
(* records held in the platform session lists have the same fields and     *)
(* values after list_recent_sessions as before it.                         *)
QueryOps ==
  {"get_platform_from_session", "get_standard_uuid", "get_prefix_uuid",
   "get_platform_sessions", "get_recent_sessions", "get_statistics"}

C27_QueriesChangeNothing ==
  [][(now' = now /\ lastOp'.op \in QueryOps) =>
       (mappings' = mappings /\ disk' = disk)]_vars

(* C26: after any sequence of generate, touch (by tagged or by canonical   *)
(* id) and cleanup calls the three structures of the store describe the    *)
(* same set of sessions: a tagged id is a key of the forward map iff its   *)
(* canonical id is a key of the reverse map iff its platform's list holds  *)
(* a record with that canonical id; so statistics().total_sessions equals  *)
(* the sum of the per-platform totals.                                     *)
RECURSIVE SumTotals(_, _)
SumTotals(stats, ps) ==
  IF ps = {} THEN 0
  ELSE LET p == CHOOSE q \in ps : TRUE
       IN stats[p].total_sessions + SumTotals(stats, ps \ {p})

InList(P, c) ==
  /\ P \in DOMAIN mappings.platform_sessions
  /\ \E i \in 1..Len(mappings.platform_sessions[P]) :
       mappings.platform_sessions[P][i].standard_uuid = c

C26_ThreeStructuresAgree ==
  /\ \A c \in Sessions :
       /\ (gen[c].tagged \in DOMAIN mappings.mappings)
            <=> (c \in DOMAIN mappings.reverse_mappings)
       /\ (c \in DOMAIN mappings.reverse_mappings) <=> InList(gen[c].platform, c)
  /\ LET st == get_statistics(mappings)
     IN st.total_sessions = SumTotals(st.platform_stats, DOMAIN st.platform_stats)

(* C24: when writing the mapping document fails, create_or_continue still  *)
(* returns a session, the new session stays resolvable through platform_of *)
(* and canonical_of on the same in-process mapper, and a mapper freshly    *)
(* loaded from the persisted document does not contain it.                 *)
WriteJustFailed == lastOp.op = "create_or_get_session" /\ lastOp.write_failed

Holds(store, id) ==
  \/ id \in DOMAIN store.mappings
  \/ id \in DOMAIN store.reverse_mappings
  \/ \E c \in AnyIds(store) : c = id \/ (c \in DOMAIN gen /\ gen[c].tagged = id)

C24_FailedWriteKeepsMemory ==
  WriteJustFailed =>
    LET id == lastOp.session_id
    IN /\ id # NoId
       /\ \E c \in Sessions :
            /\ id \in {c, gen[c].tagged}
            /\ gen[c].platform = lastOp.platform
            /\ get_platform_from_session(mappings, id) = lastOp.platform
            /\ get_standard_uuid(mappings, id) = c
            /\ get_platform_from_session(mappings, c) = lastOp.platform
            /\ get_standard_uuid(mappings, c) = c
            /\ ~Holds(load_mappings(disk), c)
            /\ ~Holds(load_mappings(disk), gen[c].tagged)

C24_Witness ==
  /\ WriteJustFailed
  /\ disk.exists
  /\ FwdIds(load_mappings(disk)) # {}
  /\ Cardinality(FwdIds(mappings)) = 2

(* C25: with two launcher processes that each load the mapping document at *)
(* start, each generate one session and each rewrite the whole document,   *)
(* a lost update is reachable, and nothing in the load/generate/save cycle *)
(* prevents it: the persisted document never holds both of two sessions    *)
(* made by different processes when neither process had the other's in the *)
(* document it loaded at start.                                            *)
MadeHere == DOMAIN gen \ peer.made

Concurrent(c, d) ==
  /\ c \in MadeHere
  /\ d \in peer.made
  /\ c \notin peer.loaded

C25_ConcurrentSessionsNeverBothPersisted ==
  \A c, d \in DOMAIN gen :
    Concurrent(c, d) =>
      ~(c \in AnyIds(load_mappings(disk)) /\ d \in AnyIds(load_mappings(disk)))

C25_Witness ==
  /\ peer.started
  /\ Cardinality(MadeHere) = 1
  /\ Cardinality(peer.made) = 1
  /\ \E c \in MadeHere, d \in peer.made :
       /\ Concurrent(c, d)
       /\ Cardinality(AnyIds(load_mappings(disk))) = 1
       /\ c \in FwdIds(mappings)
       /\ d \in FwdIds(peer.mappings)

(* C28: for every available profile the env block written into the         *)
(* platform settings file carries the same credential as the process       *)
(* environment built by the environment manager: the same one of the two   *)
(* credential variables is non-empty, with the same value, in both,        *)
(* including for a profile whose only credential is login_token.           *)
C28_SettingsCarrySameCredential ==
  (lastOp.op = "main" /\ lastOp.settings.written) =>
    \A k \in CredentialVariables :
      Value(lastOp.settings.env, k) = Value(lastOp.launch_env, k)

(* C29: resolve never returns an unavailable profile: whenever             *)
(* resolve(requested) returns (id, profile), id is a key of the registry,  *)
(* profile is the registry's entry for id, and id is a key of              *)
(* list_available(); and resolve with an empty request returns none if and *)
(* only if list_available() is empty.                                      *)
C29_ResolvedIsAvailable ==
  lastOp.op = "detect_platform" =>
    /\ result.found =>
         /\ result.id \in Keys(cfg.platforms)
         /\ result.profile = ProfileAt(cfg.platforms, result.id)
         /\ result.id \in list_available_platforms(cfg)
    /\ lastOp.requested = "" =>
         (~result.found <=> list_available_platforms(cfg) = {})

C29_Witness ==
  /\ lastOp.op = "detect_platform"
  /\ lastOp.requested # ""
  /\ result.found
  /\ result.id # lastOp.requested
  /\ result.profile.api_key = ""
  /\ list_available_platforms(cfg) = {result.id}
  /\ Cardinality(Keys(cfg.platforms)) > 1

(* C30: a launch run that ends with exit code 1 because no platform        *)
(* resolved or because the external tool could not be located leaves the   *)
(* session state as it was before the run: no SessionRecord has been added *)
(* to the mapping store and no LastSessionPointer has been changed.        *)
EndsWithoutTool(op) ==
  /\ op.op = "main"
  /\ op.exit = 1
  /\ ~op.resolved \/ ~op.claude_cmd \/ ~op.run.started

C30_FailedLaunchLeavesSessions ==
  [][(now' = now /\ EndsWithoutTool(lastOp')) =>
       /\ mappings' = mappings
       /\ disk' = disk
       /\ lastSession' = lastSession]_vars

====
